---- MODULE Spec2Model ----
(***************************************************************************)
(* A model of research/rl_memory.py: the memory-architecture controller    *)
(* (buffers, legal action set, react), the naive list-of-records store and *)
(* the NetworkX graph store, driven by the TestEnv of test.py.             *)
(*                                                                         *)
(* Conventions.  Python None for an index is NoneIdx (-1); Python list     *)
(* indices are kept 0-based in the variables and shifted by one when a     *)
(* TLA+ sequence is read.  A mapping (TreeMultiMap, State) is a function   *)
(* from the attributes it holds to their values.  Records of the naive     *)
(* store are Python objects that may be shared: they are named by their    *)
(* position in `knowledge`, and the retrieval buffer remembers in          *)
(* retrieval_ref which stored object it is bound to (0: an object of the   *)
(* controller's own).  A raised exception stops the run: `fault` names it  *)
(* and keeps the assignments made before the raise.                        *)
(***************************************************************************)
EXTENDS Integers, Sequences, FiniteSets, TLC

VARIABLES
    knowledge_store,        \* the store object's fields (NaiveDictKB, NetworkXKB or SparqlKB)
    buffers,                \* self.buffers: buffer name -> mapping
    retrieval_ref,          \* which stored object buffers['retrieval'] is bound to
    internal_action_count,  \* self.internal_action_count
    max_internal_actions,   \* self.max_internal_actions (NoLimit: None)
    size,                   \* TestEnv.size
    index,                  \* TestEnv.index
    fault,                  \* the exception that ended the run, "" while running
    last,                   \* observer: the last call made and what it returned
    run,                    \* observer: internal react calls since the last external one
    trail,                  \* observer: the records returned since the last query
    scenario,               \* the call sequence the run starts from
    pos,                    \* calls of the scenario made so far
    free                    \* calls made after leaving the scenario (0: still on it)

vars == <<knowledge_store, buffers, retrieval_ref, internal_action_count,
          max_internal_actions, size, index, fault, last, run, trail, scenario, pos, free>>

----------------------------------------------------------------------------
(* Bounds of the exploration *)

\* calls explored after a run of the controller leaves its scenario
MaxFree == 2
\* calls explored after a run of the graph store leaves test_networkxkb
MaxFreeKB == 3
\* calls made on the naive store when it is called directly, and records held
MaxCallsNaive == 7
MaxKnowledge == 3
\* calls made on the remote-backed store when it is called directly
MaxCallsSparql == 4

\* Python None, for an index and for max_internal_actions
NoneIdx == -1
NoLimit == -1
\* TestEnv(index=0)
InitIndex == 0
\* uuid(): the k-th generated identifier is UuidBase + k, equal to no other value
UuidBase == 1000

\* an optional argument: absent (None), or given
NoId == <<>>
Id(x) == <<x>>

----------------------------------------------------------------------------
(* Mappings *)

EmptyMap == [a \in {} |-> 0]

Put(m, a, v) == [x \in (DOMAIN m) \cup {a} |-> IF x = a THEN v ELSE m[x]]

Del(m, a) == [x \in (DOMAIN m) \ {a} |-> m[x]]

\* the attributes of the grid records, in key order
AttrOrder == <<"col", "index", "row">>

AttrRank(a) == CHOOSE i \in 1..Len(AttrOrder) : AttrOrder[i] = a

\* the items of a mapping in key order, each <<rank of the key, value>>
Items(m) ==
    LET held == SelectSeq(AttrOrder, LAMBDA a : a \in DOMAIN m)
    IN  [i \in 1..Len(held) |-> <<AttrRank(held[i]), m[held[i]]>>]

ItemLess(x, y) == x[1] < y[1] \/ (x[1] = y[1] /\ x[2] < y[2])

\* TreeMultiMap.__lt__: lexicographic on the items in key order
RecLess(m1, m2) ==
    LET s == Items(m1)
        t == Items(m2)
    IN  \E i \in 1..(Len(s) + 1) :
            /\ \A j \in 1..(i - 1) : j <= Len(t) /\ s[j] = t[j]
            /\ \/ i = Len(s) + 1 /\ Len(t) >= i
               \/ i <= Len(s) /\ i <= Len(t) /\ ItemLess(s[i], t[i])

----------------------------------------------------------------------------
(* TestEnv (test.py) *)

Action(name) == [name |-> name]

\* int(action.name)
IntOf(name, sz) == CHOOSE i \in -1..(sz * sz - 1) : ToString(i) = name

EnvGetObservation(idx) == [a \in {"index"} |-> idx]

EnvGetActions(sz, idx) ==
    IF idx = -1 THEN {} ELSE {Action(ToString(i)) : i \in -1..(sz * sz - 1)}

\* TestEnv.react: the new index and the reward
EnvReact(sz, idx, action) ==
    LET new == IntOf(action.name, sz)
    IN  [index |-> new, reward |-> IF EnvGetActions(sz, new) = {} THEN 100 ELSE -1]

----------------------------------------------------------------------------
(* NaiveDictKB *)

NaiveInit == [kind |-> "naive", knowledge |-> <<>>, query_index |-> NoneIdx,
              query_matches |-> <<>>]

\* what a store call returns: the store after it, whether a record came back
\* (hit), the record, the stored object it is (ref, 0 for a fresh object) and
\* the exception raised, if any
Outcome(ks, hit, rec, ref, err) ==
    [ks |-> ks, hit |-> hit, rec |-> rec, ref |-> ref, err |-> err]

NaiveStore(ks, kwargs) ==
    [ks EXCEPT !.knowledge = Append(@, kwargs)]

NaiveRetrieve(ks, mem_id) == Outcome(ks, FALSE, EmptyMap, 0, "NotImplementedError")

\* sorted(candidates): stable, so equal records keep their order in knowledge
NaiveSorted(knowledge, cands) ==
    LET Before(p, q) == \/ RecLess(knowledge[p], knowledge[q])
                        \/ (knowledge[p] = knowledge[q] /\ p < q)
        Rank(p) == Cardinality({q \in cands : Before(q, p)})
    IN  [i \in 1..Cardinality(cands) |-> CHOOSE p \in cands : Rank(p) = i - 1]

NaiveCandidates(ks, attr_vals) ==
    {p \in 1..Len(ks.knowledge) :
        \A a \in DOMAIN attr_vals :
            a \in DOMAIN ks.knowledge[p] /\ ks.knowledge[p][a] = attr_vals[a]}

\* NaiveQuery that always restarts the cursor at the first match
NaiveQueryFromStart(ks, attr_vals) ==
    LET cands == NaiveCandidates(ks, attr_vals)
        matches == NaiveSorted(ks.knowledge, cands)
    IN  IF cands # {}
        THEN Outcome([ks EXCEPT !.query_matches = matches, !.query_index = 0],
                     TRUE, ks.knowledge[matches[1]], matches[1], "")
        ELSE Outcome([ks EXCEPT !.query_matches = <<>>, !.query_index = NoneIdx],
                     FALSE, EmptyMap, 0, "")

NaiveQuery(ks, attr_vals) ==
    LET cands == NaiveCandidates(ks, attr_vals)
        matches == NaiveSorted(ks.knowledge, cands)
        \* list.index(curr_retrieved): the first match equal to it
        same == IF ks.query_index = NoneIdx THEN {}
                ELSE LET curr == ks.knowledge[ks.query_matches[ks.query_index + 1]]
                     IN  {i \in 1..Len(matches) : ks.knowledge[matches[i]] = curr}
        new_index == IF same = {} THEN 0
                     ELSE (CHOOSE i \in same : \A j \in same : i <= j) - 1
    IN  IF cands # {}
        THEN Outcome([ks EXCEPT !.query_matches = matches, !.query_index = new_index],
                     TRUE, ks.knowledge[matches[new_index + 1]], matches[new_index + 1], "")
        ELSE Outcome([ks EXCEPT !.query_matches = <<>>, !.query_index = NoneIdx],
                     FALSE, EmptyMap, 0, "")

NaiveHasPrevResult(ks) == TRUE

NaiveHasNextResult(ks) == TRUE

\* NaiveMove that stops at the ends of the match list
NaiveMoveClamped(ks, step) ==
    IF ks.query_index = NoneIdx
    THEN Outcome(ks, FALSE, EmptyMap, 0, "TypeError")
    ELSE IF Len(ks.query_matches) = 0
    THEN Outcome(ks, FALSE, EmptyMap, 0, "ZeroDivisionError")
    ELSE LET j == ks.query_index + step
             i == IF j < 0 THEN 0
                  ELSE IF j >= Len(ks.query_matches) THEN Len(ks.query_matches) - 1 ELSE j
         IN  Outcome([ks EXCEPT !.query_index = i], TRUE,
                     ks.knowledge[ks.query_matches[i + 1]], ks.query_matches[i + 1], "")

\* prev_result (step = -1) and next_result (step = 1)
NaiveMove(ks, step) ==
    IF ks.query_index = NoneIdx
    THEN Outcome(ks, FALSE, EmptyMap, 0, "TypeError")
    ELSE IF Len(ks.query_matches) = 0
    THEN Outcome(ks, FALSE, EmptyMap, 0, "ZeroDivisionError")
    ELSE LET i == (ks.query_index + step) % Len(ks.query_matches)
         IN  Outcome([ks EXCEPT !.query_index = i], TRUE,
                     ks.knowledge[ks.query_matches[i + 1]], ks.query_matches[i + 1], "")

NaivePrevResult(ks) == NaiveMove(ks, -1)

NaiveNextResult(ks) == NaiveMove(ks, 1)

\* NaiveRetrievable that accepts every value
NaiveRetrievableAlways(mem_id) == TRUE

NaiveRetrievable(mem_id) == FALSE

----------------------------------------------------------------------------
(* NetworkXKB *)

\* Entries of a node's 'activation' list.  Numbers are held in hundredths.
Tuple(t, a) == [k |-> "tuple", t |-> t, a |-> a]
List(t, a) == [k |-> "list", t |-> t, a |-> a]
Num(x) == [k |-> "num", t |-> x, a |-> 0]

\* getActivation, in hundredths: 1 at time 0, else round(1 / time, 2).
\* round() rounds the float 1/time half to even; below time 40 the only
\* exact half is 1/8 = 0.125.
GetActivation(time) ==
    IF time = 0 THEN 100
    ELSE LET q == 100 \div time
             r == 100 % time
         IN  IF 2 * r > time THEN q + 1
             ELSE IF 2 * r < time THEN q
             ELSE IF q % 2 = 0 THEN q ELSE q + 1

\* activation_fn is "append" for the function of test.py, "ignore" for a
\* function that leaves the node's history as it is, "default" for the
\* function __init__ supplies when none is given
NXInit == [kind |-> "nx", activation_fn |-> "append", activation |-> EmptyMap, edges |-> <<>>,
           inverted_index |-> EmptyMap, query_results |-> <<>>,
           result_index |-> NoneIdx, time |-> 0, uuids |-> 0]

\* NetworkXKB(activation_fn=fn)
NXInitWith(fn) == [NXInit EXCEPT !.activation_fn = fn]

\* x < y on two entries: "lt", "gt", "eq", or "err" (TypeError: a tuple, a
\* list and a number are not ordered against each other)
CmpEntry(x, y) ==
    IF x = y THEN "eq"
    ELSE IF x.k # y.k THEN "err"
    ELSE IF x.t < y.t \/ (x.t = y.t /\ x.a < y.a) THEN "lt" ELSE "gt"

\* comparison of two activation lists, as Python compares lists
CmpActivation(s, t) ==
    LET diff == {i \in 1..Len(s) : i <= Len(t) /\ s[i] # t[i]}
    IN  IF diff # {}
        THEN LET i == CHOOSE i \in diff : \A j \in diff : i <= j
             IN  CmpEntry(s[i], t[i])
        ELSE IF Len(s) < Len(t) THEN "lt"
        ELSE IF Len(s) > Len(t) THEN "gt" ELSE "eq"

\* defaultdict(set)[attribute]
IndexGet(ii, a) == IF a \in DOMAIN ii THEN ii[a] ELSE {}

\* the attribute of the edge with key 0 between two nodes: the first one added
FirstAttribute(edges, u, v) ==
    LET is == {i \in 1..Len(edges) : edges[i][1] = u /\ edges[i][2] = v}
    IN  edges[CHOOSE i \in is : \A j \in is : i <= j][3]

HasEdge(edges, u, v) == \E i \in 1..Len(edges) : edges[i][1] = u /\ edges[i][2] = v

\* NXPairs read from the incoming edges
NXPairsIncoming(ks, mem_id) ==
    {<<ks.edges[i][3], ks.edges[i][1]>> : i \in {j \in 1..Len(ks.edges) : ks.edges[j][2] = mem_id}}

\* the <<attribute, value>> pairs on the outgoing edges of a node
NXPairs(ks, mem_id) ==
    {<<ks.edges[i][3], ks.edges[i][2]>> : i \in {j \in 1..Len(ks.edges) : ks.edges[j][1] = mem_id}}

\* the TreeMultiMap built from the pairs, read as attribute -> value
AsMap(pairs) == [a \in {p[1] : p \in pairs} |-> CHOOSE v \in {p[2] : p \in pairs} : <<a, v>> \in pairs]

\* activation_fn of test.py: graph.nodes[mem_id]['activation'].append(activation)
ActivationFn(activation, mem_id, time) ==
    [activation EXCEPT ![mem_id] = Append(@, List(time, GetActivation(time)))]

\* self.activation_fn(self.graph, mem_id, [self.getTime(), self.getActivation()])
CallActivationFn(ks, mem_id) ==
    IF ks.activation_fn = "append"
    THEN ActivationFn(ks.activation, mem_id, ks.time)
    ELSE ks.activation

\* the default, lambda graph, mem_id: None, is called with three arguments:
\* TypeError
ActivationFnRaises(ks) == ks.activation_fn = "default"

\* _activate_and_return
NXActivateAndReturn(ks, mem_id) ==
    IF ActivationFnRaises(ks)
    THEN Outcome(ks, FALSE, EmptyMap, 0, "TypeError")
    ELSE Outcome([ks EXCEPT !.activation = CallActivationFn(ks, mem_id)],
                 TRUE, AsMap(NXPairs(ks, mem_id)), 0, "")

\* one pass of the loop over kwargs in store
RECURSIVE NXAddEdges(_, _, _, _)
NXAddEdges(ks, mem_id, kwargs, i) ==
    IF i > Len(kwargs) THEN ks
    ELSE LET attribute == kwargs[i][1]
             value == kwargs[i][2]
             act == IF value \in DOMAIN ks.activation THEN ks.activation
                    ELSE Put(ks.activation, value,
                             <<Num(100 * ks.time), Num(GetActivation(ks.time))>>)
         IN  NXAddEdges([ks EXCEPT !.activation = act,
                                   !.edges = Append(@, <<mem_id, value, attribute>>),
                                   !.inverted_index =
                                       Put(@, attribute, IndexGet(@, attribute) \cup {mem_id})],
                        mem_id, kwargs, i + 1)

\* store raises when it calls the activation function on a node already in
\* the graph and the call raises
NXStoreRaises(ks, mem_id) ==
    ActivationFnRaises(ks) /\ mem_id # NoId /\ mem_id[1] \in DOMAIN ks.activation

\* store(mem_id, **kwargs); mem_id is NoId (None) or Id(x).  kwargs is the
\* sequence of <<attribute, value>> in call order.  A store that raises has
\* assigned nothing.
NXStore(ks, mem_id, kwargs) ==
    IF NXStoreRaises(ks, mem_id) THEN ks ELSE
    LET fresh == mem_id = NoId
        id == IF fresh THEN UuidBase + ks.uuids ELSE mem_id[1]
        ks1 == [ks EXCEPT !.uuids = IF fresh THEN @ + 1 ELSE @]
        ks2 == IF id \notin DOMAIN ks1.activation
               THEN [ks1 EXCEPT !.activation =
                        Put(@, id, <<Tuple(ks.time, GetActivation(ks.time))>>)]
               ELSE [ks1 EXCEPT !.activation = CallActivationFn(ks1, id)]
        ks3 == NXAddEdges(ks2, id, kwargs, 1)
    IN  [ks3 EXCEPT !.time = @ + 1]

NXRetrieve(ks, mem_id) ==
    IF mem_id \notin DOMAIN ks.activation
    THEN Outcome(ks, FALSE, EmptyMap, 0, "")
    ELSE NXActivateAndReturn([ks EXCEPT !.time = @ + 1], mem_id)

\* the two passes of query that select the candidates
NXCandidates(ks, attr_vals) ==
    {c \in UNION {IndexGet(ks.inverted_index, a) : a \in DOMAIN attr_vals} :
        /\ \A a \in DOMAIN attr_vals : c \in IndexGet(ks.inverted_index, a)
        /\ \A a \in DOMAIN attr_vals :
               /\ HasEdge(ks.edges, c, attr_vals[a])
               /\ FirstAttribute(ks.edges, c, attr_vals[a]) = a}

\* NXSorted without reverse=True
NXSortedAscending(ks, cands) ==
    {s \in [1..Cardinality(cands) -> cands] :
        /\ \A i, j \in DOMAIN s : i # j => s[i] # s[j]
        /\ \A i, j \in DOMAIN s :
               i < j => CmpActivation(ks.activation[s[i]], ks.activation[s[j]]) \in {"lt", "eq"}}

\* sorted(candidates, key=activation, reverse=True): every order of the
\* candidates that descends in activation.  Candidates of equal activation
\* keep the iteration order of the set, which the program does not fix.
NXSorted(ks, cands) ==
    {s \in [1..Cardinality(cands) -> cands] :
        /\ \A i, j \in DOMAIN s : i # j => s[i] # s[j]
        /\ \A i, j \in DOMAIN s :
               i < j => CmpActivation(ks.activation[s[i]], ks.activation[s[j]]) \in {"gt", "eq"}}

\* sorting raises TypeError when two candidates' activations are not ordered
NXSortFails(ks, cands) ==
    \E c, d \in cands : CmpActivation(ks.activation[c], ks.activation[d]) = "err"

\* query(attr_vals): the set of possible outcomes
NXQuery(ks, attr_vals) ==
    LET cands == NXCandidates(ks, attr_vals)
        \* self.inverted_index[attribute] creates the missing entries
        ks1 == [ks EXCEPT !.inverted_index =
                   [a \in (DOMAIN @) \cup (DOMAIN attr_vals) |-> IndexGet(@, a)]]
    IN  IF DOMAIN attr_vals = {}
        THEN {Outcome(ks, FALSE, EmptyMap, 0, "TypeError")}
        ELSE IF cands = {}
        THEN {Outcome([ks1 EXCEPT !.query_results = <<>>, !.result_index = NoneIdx],
                      FALSE, EmptyMap, 0, "")}
        ELSE IF NXSortFails(ks, cands)
        THEN {Outcome(ks1, FALSE, EmptyMap, 0, "TypeError")}
        ELSE {NXActivateAndReturn([ks1 EXCEPT !.query_results = s, !.result_index = 0,
                                               !.time = @ + 1], s[1]) :
                 s \in NXSorted(ks, cands)}

NXHasPrevResult(ks) == ks.query_results # <<>> /\ ks.result_index > 0

\* NXHasNextResult with the bound one too far
NXHasNextResultOffByOne(ks) ==
    ks.query_results # <<>> /\ ks.result_index < Len(ks.query_results)

NXHasNextResult(ks) ==
    ks.query_results # <<>> /\ ks.result_index < Len(ks.query_results) - 1

\* prev_result (step = -1) and next_result (step = 1): the index moves, then
\* query_results[result_index] is read as Python reads a list: a negative
\* index counts from the end, an index outside the list raises IndexError
NXMove(ks, step) ==
    \* result_index is None exactly when query_results is None
    IF ks.query_results = <<>>
    THEN Outcome(ks, FALSE, EmptyMap, 0, "TypeError")
    ELSE LET i == ks.result_index + step
             n == Len(ks.query_results)
             ks1 == [ks EXCEPT !.result_index = i]
         IN  IF i >= n \/ i < 0 - n
             THEN Outcome(ks1, FALSE, EmptyMap, 0, "IndexError")
             ELSE NXActivateAndReturn(ks1, ks.query_results[IF i < 0 THEN n + i + 1 ELSE i + 1])

NXPrevResult(ks) == NXMove(ks, -1)

NXNextResult(ks) == NXMove(ks, 1)

\* isinstance(mem_id, Hashable): every value of the model is hashable
NXRetrievable(mem_id) == TRUE

----------------------------------------------------------------------------
(* KnowledgeStore: dispatch on the backend *)

\* TreeMultiMap(**kwargs)
MapOf(kwargs) == [a \in {kwargs[i][1] : i \in DOMAIN kwargs} |->
                     kwargs[CHOOSE i \in DOMAIN kwargs : kwargs[i][1] = a][2]]

KSStore(ks, mem_id, kwargs) ==
    IF ks.kind = "naive" THEN NaiveStore(ks, MapOf(kwargs)) ELSE NXStore(ks, mem_id, kwargs)

KSStoreRaises(ks, mem_id) == ks.kind = "nx" /\ NXStoreRaises(ks, mem_id)

KSRetrieve(ks, mem_id) ==
    IF ks.kind = "naive" THEN NaiveRetrieve(ks, mem_id) ELSE NXRetrieve(ks, mem_id)

KSQuery(ks, attr_vals) ==
    IF ks.kind = "naive" THEN {NaiveQuery(ks, attr_vals)} ELSE NXQuery(ks, attr_vals)

KSHasPrevResult(ks) ==
    IF ks.kind = "naive" THEN NaiveHasPrevResult(ks) ELSE NXHasPrevResult(ks)

KSHasNextResult(ks) ==
    IF ks.kind = "naive" THEN NaiveHasNextResult(ks) ELSE NXHasNextResult(ks)

KSPrevResult(ks) ==
    IF ks.kind = "naive" THEN NaivePrevResult(ks) ELSE NXPrevResult(ks)

KSNextResult(ks) ==
    IF ks.kind = "naive" THEN NaiveNextResult(ks) ELSE NXNextResult(ks)

KSRetrievable(ks, mem_id) ==
    IF ks.kind = "naive" THEN NaiveRetrievable(mem_id) ELSE NXRetrievable(mem_id)

----------------------------------------------------------------------------
(* MemoryArchitectureMetaEnvironment *)

BUFFERS == [perceptual |-> [copyable |-> TRUE, writable |-> FALSE],
            query      |-> [copyable |-> FALSE, writable |-> TRUE],
            retrieval  |-> [copyable |-> TRUE, writable |-> FALSE],
            scratch    |-> [copyable |-> TRUE, writable |-> TRUE]]

BufNames == DOMAIN BUFFERS

CopyAction(src_buf, attr, dst_buf) ==
    [name |-> "copy", src_buf |-> src_buf, src_attr |-> attr,
     dst_buf |-> dst_buf, dst_attr |-> attr]

DeleteAction(buf, attr) == [name |-> "delete", buf |-> buf, attr |-> attr]

RetrieveAction(buf, attr) == [name |-> "retrieve", buf |-> buf, attr |-> attr]

InternalNames == {"copy", "delete", "retrieve", "prev-result", "next-result"}

\* _clear_buffers: every buffer a new, empty mapping
ClearedBuffers == [b \in BufNames |-> EmptyMap]

\* Copyable without the exclusion of (perceptual, scratch)
CopyableAnyPair(src_buf, attr, dst_buf) ==
    /\ src_buf # dst_buf
    /\ BUFFERS[dst_buf].writable
    /\ ~(attr \in DOMAIN buffers[dst_buf] /\ buffers[dst_buf][attr] = buffers[src_buf][attr])

\* Copyable without the comparison of the two values
CopyableAnyValue(src_buf, attr, dst_buf) ==
    /\ src_buf # dst_buf
    /\ BUFFERS[dst_buf].writable
    /\ ~(src_buf = "perceptual" /\ dst_buf = "scratch")

\* the test of _generate_copy_actions on one source, attribute and destination
Copyable(src_buf, attr, dst_buf) ==
    /\ src_buf # dst_buf
    /\ BUFFERS[dst_buf].writable
    /\ ~(src_buf = "perceptual" /\ dst_buf = "scratch")
    /\ ~(attr \in DOMAIN buffers[dst_buf] /\ buffers[dst_buf][attr] = buffers[src_buf][attr])

GenerateCopyActions ==
    {CopyAction(src_buf, attr, dst_buf) :
        <<src_buf, attr, dst_buf>> \in
            {t \in UNION {{<<s, a, d>> : a \in DOMAIN buffers[s], d \in BufNames} :
                              s \in {b \in BufNames : BUFFERS[b].copyable}} :
                Copyable(t[1], t[2], t[3])}}

GenerateDeleteActions ==
    UNION {{DeleteAction(buf, attr) : attr \in DOMAIN buffers[buf]} :
              buf \in {b \in BufNames : BUFFERS[b].writable}}

GenerateRetrieveActions ==
    UNION {{RetrieveAction(buf, attr) :
               attr \in {a \in DOMAIN buffers[buf] :
                             KSRetrievable(knowledge_store, buffers[buf][a])}} :
              buf \in {b \in BufNames : BUFFERS[b].copyable}}

\* GenerateCursorActions without the test of the retrieval buffer
GenerateCursorActionsAlways ==
    (IF KSHasPrevResult(knowledge_store) THEN {Action("prev-result")} ELSE {})
    \cup (IF KSHasNextResult(knowledge_store) THEN {Action("next-result")} ELSE {})

GenerateCursorActions ==
    IF buffers["retrieval"] # EmptyMap
    THEN (IF KSHasPrevResult(knowledge_store) THEN {Action("prev-result")} ELSE {})
         \cup (IF KSHasNextResult(knowledge_store) THEN {Action("next-result")} ELSE {})
    ELSE {}

\* AllowInternalActions with <= for <
AllowInternalActionsOffByOne ==
    max_internal_actions = NoLimit \/ internal_action_count <= max_internal_actions

AllowInternalActions ==
    max_internal_actions = NoLimit \/ internal_action_count < max_internal_actions

\* get_actions, as the set of the actions in the sorted list it returns
GetActions ==
    LET actions == EnvGetActions(size, index)
    IN  IF actions = {} THEN {}
        ELSE IF AllowInternalActions
        THEN actions \cup GenerateCopyActions \cup GenerateDeleteActions
                     \cup GenerateRetrieveActions \cup GenerateCursorActions
        ELSE actions

\* what the interpretation of an action leaves: the buffers, the store, the
\* binding of the retrieval buffer and the exception raised, if any
Effect(bufs, ks, ref, err) == [buffers |-> bufs, ks |-> ks, ref |-> ref, err |-> err]

\* self.buffers['retrieval'].clear(): empties the object the buffer is bound
\* to, which is a record of the naive store when ref > 0
ClearRetrieval(bufs, ks, ref) ==
    Effect([bufs EXCEPT !["retrieval"] = EmptyMap],
           IF ref > 0 THEN [ks EXCEPT !.knowledge[ref] = EmptyMap] ELSE ks,
           ref, "")

\* self.buffers['retrieval'] = result, or the clear on a miss
TakeResult(bufs, o, ref) ==
    IF o.err # "" THEN Effect(bufs, o.ks, ref, o.err)
    ELSE IF ~o.hit THEN ClearRetrieval(bufs, o.ks, ref)
    ELSE Effect([bufs EXCEPT !["retrieval"] = o.rec], o.ks, o.ref, "")

\* self.buffers['retrieval'] = self.knowledge_store.prev_result() / next_result()
TakeNavigation(o) ==
    IF o.err # "" THEN Effect(buffers, o.ks, retrieval_ref, o.err)
    ELSE Effect([buffers EXCEPT !["retrieval"] = o.rec], o.ks, o.ref, "")

\* QueryLtm that leaves the retrieval buffer as it is when the store misses
QueryLtmKeepOnMiss(bufs, ks, ref) ==
    IF bufs["query"] = EmptyMap
    THEN {ClearRetrieval(bufs, ks, ref)}
    ELSE {IF o.err = "" /\ ~o.hit THEN Effect(bufs, o.ks, ref, "") ELSE TakeResult(bufs, o, ref) :
             o \in KSQuery(ks, bufs["query"])}

\* _query_ltm: the set of possible effects
QueryLtm(bufs, ks, ref) ==
    IF bufs["query"] = EmptyMap
    THEN {ClearRetrieval(bufs, ks, ref)}
    ELSE {TakeResult(bufs, o, ref) : o \in KSQuery(ks, bufs["query"])}

\* ClearQuery that leaves the query buffer as it is
ClearQuerySkipped(bufs) == bufs

\* self.buffers['query'].clear()
ClearQuery(bufs) == [bufs EXCEPT !["query"] = EmptyMap]

\* _process_internal_actions on an internal action: the set of possible effects
ProcessInternalActions(action) ==
    CASE action.name = "copy" ->
            IF action.src_attr \notin DOMAIN buffers[action.src_buf]
            THEN {Effect(buffers, knowledge_store, retrieval_ref, "KeyError")}
            ELSE LET val == buffers[action.src_buf][action.src_attr]
                     bufs == [buffers EXCEPT ![action.dst_buf] = Put(@, action.dst_attr, val)]
                 IN  IF action.dst_buf = "query"
                     THEN QueryLtm(bufs, knowledge_store, retrieval_ref)
                     ELSE {Effect(bufs, knowledge_store, retrieval_ref, "")}
      [] action.name = "delete" ->
            IF action.attr \notin DOMAIN buffers[action.buf]
            THEN {Effect(buffers, knowledge_store, retrieval_ref, "KeyError")}
            ELSE LET bufs == [buffers EXCEPT ![action.buf] = Del(@, action.attr)]
                 IN  IF action.buf = "query"
                     THEN QueryLtm(bufs, knowledge_store, retrieval_ref)
                     ELSE {Effect(bufs, knowledge_store, retrieval_ref, "")}
      [] action.name = "retrieve" ->
            IF action.attr \notin DOMAIN buffers[action.buf]
            THEN {Effect(buffers, knowledge_store, retrieval_ref, "KeyError")}
            ELSE LET o == KSRetrieve(knowledge_store, buffers[action.buf][action.attr])
                 IN  IF o.err # ""
                     THEN {Effect(buffers, o.ks, retrieval_ref, o.err)}
                     ELSE {TakeResult(ClearQuery(buffers), o, retrieval_ref)}
      [] action.name = "prev-result" ->
            {TakeNavigation(KSPrevResult(knowledge_store))}
      [] action.name = "next-result" ->
            {TakeNavigation(KSNextResult(knowledge_store))}

\* SyncInputBuffers that leaves the perceptual buffer as it is
SyncInputBuffersSkipped(bufs, idx) == bufs

\* _sync_input_buffers
SyncInputBuffers(bufs, idx) == [bufs EXCEPT !["perceptual"] = EnvGetObservation(idx)]

----------------------------------------------------------------------------
(* Scenarios: the call sequences of test.py, and the configurations run *)

Call(op, arg) == [op |-> op, arg |-> arg]

NoArg == Action("")

\* add_to_ltm(index=i, row=(i // size), col=(i % size)), with mem_id when given
GridKwargs(i, sz) == <<<<"index", i>>, <<"row", i \div sz>>, <<"col", i % sz>>>>

AddCall(mem_id, kwargs) == Call("add_to_ltm", [mem_id |-> mem_id, kwargs |-> kwargs])

ReactCall(action) == Call("react", action)

Scenarios == {"grid", "small", "graph", "budget", "mixed", "episodes"}

\* the constructor arguments of each configuration
Config(s) ==
    CASE s = "grid"   -> [kind |-> "naive", max_internal_actions |-> NoLimit, size |-> 5]
      [] s = "small"  -> [kind |-> "naive", max_internal_actions |-> 2, size |-> 2]
      [] s = "graph"  -> [kind |-> "nx", max_internal_actions |-> NoLimit, size |-> 2]
      [] s = "budget" -> [kind |-> "nx", max_internal_actions |-> 1, size |-> 2]
      [] s = "mixed"  -> [kind |-> "nx", max_internal_actions |-> NoLimit, size |-> 2]
      [] s = "episodes" -> [kind |-> "naive", max_internal_actions |-> NoLimit, size |-> 2]

\* start_new_episode, then one add_to_ltm per cell of the grid
Populate(sz, with_ids) ==
    <<Call("start_new_episode", NoArg)>>
    \o [i \in 1..(sz * sz) |->
           AddCall(IF with_ids THEN Id(i - 1) ELSE NoId, GridKwargs(i - 1, sz))]

\* test_memory_architecture, after the store is populated
GridCalls ==
    <<ReactCall(Action("9")),
      ReactCall(CopyAction("perceptual", "index", "query")),
      ReactCall(CopyAction("retrieval", "row", "query")),
      ReactCall(Action("0")),
      ReactCall(CopyAction("perceptual", "index", "query")),
      ReactCall(DeleteAction("query", "index")),
      ReactCall(Action("next-result")),
      ReactCall(Action("prev-result")),
      ReactCall(Action("-1"))>>

\* the same walk on the 2 x 2 grid
SmallCalls ==
    <<ReactCall(Action("3")),
      ReactCall(CopyAction("perceptual", "index", "query")),
      ReactCall(CopyAction("retrieval", "row", "query")),
      ReactCall(Action("0")),
      ReactCall(CopyAction("perceptual", "index", "query")),
      ReactCall(DeleteAction("query", "index")),
      ReactCall(Action("1")),
      ReactCall(Action("next-result")),
      ReactCall(CopyAction("retrieval", "col", "scratch")),
      ReactCall(Action("-1"))>>

\* the walk under a budget of one internal action
BudgetCalls ==
    <<ReactCall(Action("3")),
      ReactCall(CopyAction("perceptual", "index", "query")),
      ReactCall(Action("0")),
      ReactCall(CopyAction("retrieval", "row", "query")),
      ReactCall(Action("1")),
      ReactCall(DeleteAction("query", "index")),
      ReactCall(Action("-1"))>>

\* a second record for index 0, a walk to it, and a new episode that queries
\* index 0 again
EpisodeCalls ==
    <<AddCall(NoId, <<<<"index", 0>>, <<"row", 1>>, <<"col", 1>>>>),
      ReactCall(CopyAction("perceptual", "index", "query")),
      ReactCall(Action("next-result")),
      Call("start_new_episode", NoArg),
      ReactCall(CopyAction("perceptual", "index", "query"))>>

\* test_networkxkb
ZooStores ==
    <<[mem_id |-> Id("cat"), kwargs |-> <<<<"is_a", "mammal">>, <<"has", "fur">>, <<"name", "cat">>>>],
      [mem_id |-> Id("bear"), kwargs |-> <<<<"is_a", "mammal">>, <<"has", "fur">>, <<"name", "bear">>>>],
      [mem_id |-> Id("whale"), kwargs |-> <<<<"is_a", "mammal">>, <<"lives_in", "water">>>>],
      [mem_id |-> Id("whale"), kwargs |-> <<<<"name", "whale">>>>],
      [mem_id |-> Id("fish"), kwargs |-> <<<<"is_a", "animal">>, <<"lives_in", "water">>>>],
      [mem_id |-> Id("mammal"), kwargs |-> <<<<"has", "vertebra">>, <<"is_a", "animal">>>>],
      [mem_id |-> Id("cat"), kwargs |-> <<>>]>>

ZooCalls ==
    [i \in 1..6 |-> Call("store", ZooStores[i])]
    \o <<Call("retrieve", "whale"),
          Call("query", [has |-> "vertebra", lives_in |-> "water"]),
          Call("query", [has |-> "vertebra"]),
          Call("store", ZooStores[7]),
          Call("query", [is_a |-> "mammal"]),
          Call("next_result", NoArg),
          Call("next_result", NoArg),
          Call("prev_result", NoArg),
          Call("prev_result", NoArg)>>

Script(s) ==
    CASE s = "grid"   -> Populate(5, FALSE) \o GridCalls
      [] s = "small"  -> Populate(2, FALSE) \o SmallCalls
      [] s = "graph"  -> Populate(2, TRUE) \o SmallCalls
      [] s = "budget" -> Populate(2, FALSE) \o BudgetCalls
      [] s = "mixed"  -> Populate(2, FALSE)
                         \o <<AddCall(Id(3), GridKwargs(3, 2))>> \o SmallCalls
      [] s = "episodes" -> Populate(2, FALSE) \o EpisodeCalls
      [] s = "zoo"    -> ZooCalls
      [] s = "still"  -> <<Call("store", ZooStores[1]), Call("store", ZooStores[6])>>
      [] s = "plain"  -> <<>>

\* the inputs tried after the run leaves its scenario
FreeIndices(s) == IF s = "grid" THEN {0, 9} ELSE {0, 3}

FreeAdds(s) ==
    {[mem_id |-> m, kwargs |-> GridKwargs(i, Config(s).size)] :
        m \in (IF Config(s).kind = "nx" THEN {NoId, Id(3)} ELSE {NoId}),
        i \in FreeIndices(s)}

FreeNatives(s) == {Action(ToString(i)) : i \in FreeIndices(s) \cup {-1}}

\* a call is the scenario's next one, or one more call off the scenario
Advance(call) ==
    LET script == Script(scenario)
    IN  IF free = 0 /\ pos < Len(script)
           /\ script[pos + 1].op = call.op /\ script[pos + 1].arg = call.arg
        THEN pos' = pos + 1 /\ free' = 0
        ELSE /\ free < (IF scenario \in {"zoo", "still", "plain"} THEN MaxFreeKB ELSE MaxFree)
             /\ pos' = pos /\ free' = free + 1

OnScript(call) ==
    /\ free = 0 /\ pos < Len(Script(scenario))
    /\ Script(scenario)[pos + 1].op = call.op /\ Script(scenario)[pos + 1].arg = call.arg

----------------------------------------------------------------------------
(* The controller's operations *)

Observed(op, action, reward) == [op |-> op, action |-> action, reward |-> reward]

NoTrail == [pure |-> FALSE, recs |-> <<>>, retrieved |-> FALSE, stored |-> EmptyMap]

Init ==
    /\ scenario \in Scenarios
    /\ knowledge_store = IF Config(scenario).kind = "naive" THEN NaiveInit ELSE NXInit
    /\ buffers = ClearedBuffers
    /\ retrieval_ref = 0
    /\ internal_action_count = 0
    /\ max_internal_actions = Config(scenario).max_internal_actions
    /\ size = Config(scenario).size
    /\ index = InitIndex
    /\ fault = ""
    /\ last = Observed("init", NoArg, 0)
    /\ run = 0
    /\ trail = NoTrail
    /\ pos = 0
    /\ free = 0

\* start_new_episode: TestEnv's, then the buffers are cleared and synchronized
StartNewEpisode ==
    /\ fault = ""
    /\ Advance(Call("start_new_episode", NoArg))
    /\ index' = InitIndex
    /\ buffers' = SyncInputBuffers(ClearedBuffers, InitIndex)
    /\ retrieval_ref' = 0
    /\ internal_action_count' = 0
    /\ run' = 0
    /\ last' = Observed("start_new_episode", NoArg, 0)
    /\ UNCHANGED <<knowledge_store, max_internal_actions, size, fault, trail, scenario>>

\* reset: TestEnv.reset calls self.start_new_episode(), which is the
\* controller's; then reset clears the buffers once more
Reset ==
    /\ fault = ""
    /\ Advance(Call("reset", NoArg))
    /\ index' = InitIndex
    /\ buffers' = ClearedBuffers
    /\ retrieval_ref' = 0
    /\ internal_action_count' = 0
    /\ run' = 0
    /\ last' = Observed("reset", NoArg, 0)
    /\ UNCHANGED <<knowledge_store, max_internal_actions, size, fault, trail, scenario>>

AddToLtm(arg) ==
    /\ fault = ""
    /\ Advance(Call("add_to_ltm", arg))
    /\ knowledge_store' = KSStore(knowledge_store, arg.mem_id, arg.kwargs)
    /\ fault' = (IF KSStoreRaises(knowledge_store, arg.mem_id) THEN "TypeError" ELSE "")
    /\ last' = Observed("add_to_ltm", NoArg, 0)
    /\ UNCHANGED <<buffers, retrieval_ref, internal_action_count, max_internal_actions,
                   size, index, run, trail, scenario>>

\* rewards are held in tenths: internal_reward = -0.1 is -1
InternalReward == -1

\* react with an internal action
ReactInternal(action) ==
    \E e \in ProcessInternalActions(action) :
        /\ knowledge_store' = e.ks
        /\ retrieval_ref' = e.ref
        /\ fault' = e.err
        /\ IF e.err # ""
           THEN /\ buffers' = e.buffers
                /\ last' = Observed("raised", action, 0)
                /\ UNCHANGED <<internal_action_count, run>>
           ELSE /\ buffers' = SyncInputBuffers(e.buffers, index)
                /\ internal_action_count' = internal_action_count + 1
                /\ run' = run + 1
                /\ last' = Observed("react", action, InternalReward)
        /\ UNCHANGED index

\* react with an action of the wrapped environment
ReactExternal(action) ==
    LET r == EnvReact(size, index, action)
    IN  /\ index' = r.index
        /\ internal_action_count' = 0
        /\ run' = 0
        /\ buffers' = SyncInputBuffers(buffers, r.index)
        /\ last' = Observed("react", action, 10 * r.reward)
        /\ UNCHANGED <<knowledge_store, retrieval_ref, fault>>

\* Legal that lets every internal action through
LegalIfInternal(action) == action.name \in InternalNames \/ action \in GetActions

\* assert action in self.get_actions()
Legal(action) == action \in GetActions

\* react with an action the assert rejects: AssertionError, nothing assigned
ReactRejected(action) ==
    /\ fault' = "AssertionError"
    /\ last' = Observed("raised", action, 0)
    /\ UNCHANGED <<knowledge_store, buffers, retrieval_ref, internal_action_count, index, run>>

React(action) ==
    /\ fault = ""
    /\ Advance(ReactCall(action))
    /\ IF ~Legal(action)
       THEN ReactRejected(action)
       ELSE IF action.name \in InternalNames
       THEN ReactInternal(action)
       ELSE ReactExternal(action)
    /\ UNCHANGED <<max_internal_actions, size, trail, scenario>>

\* the actions tried: every legal internal action, the scenario's next
\* action, and the native actions of FreeNatives
ReactInputs ==
    {a \in GetActions :
        \/ a.name \in InternalNames
        \/ a \in FreeNatives(scenario)
        \/ OnScript(ReactCall(a))}

\* actions tried whether or not they are legal
RejectedInputs ==
    {DeleteAction("query", "index"), DeleteAction("scratch", "row"),
     RetrieveAction("scratch", "index"), Action("next-result"),
     CopyAction("perceptual", "index", "query"), CopyAction("retrieval", "row", "scratch"),
     Action("0")}

AddInputs ==
    FreeAdds(scenario)
    \cup {c.arg : c \in {Script(scenario)[i] : i \in {j \in {pos + 1} :
                       /\ free = 0 /\ j <= Len(Script(scenario))
                       /\ Script(scenario)[j].op = "add_to_ltm"}}}

Next ==
    \/ StartNewEpisode
    \/ Reset
    \/ \E arg \in AddInputs : AddToLtm(arg)
    \/ \E action \in ReactInputs \cup RejectedInputs : React(action)

Spec == Init /\ [][Next]_vars

----------------------------------------------------------------------------
(* The graph store called directly, as test_networkxkb calls it *)

\* the stores of the test, and one that gives cat a second attribute on fur
FreeStores == {ZooStores[i] : i \in DOMAIN ZooStores}
              \cup {[mem_id |-> Id("cat"), kwargs |-> <<<<"likes", "fur">>>>]}

FreeRetrieves == {"cat", "whale", "mammal", "dog"}

FreeQueries == {[is_a |-> "mammal"], [has |-> "vertebra"],
                [has |-> "vertebra", lives_in |-> "water"],
                [lives_in |-> "water"], [is_a |-> "animal"], [likes |-> "fur"]}

\* the call, the cursor index before it, and what it returned
Returned(op, arg, before, o) ==
    [op |-> op, arg |-> arg, before |-> before, hit |-> o.hit, rec |-> o.rec]

\* the <<attribute, value>> pairs given to the store calls made for mem_id
StoredPairs(stored, mem_id) == IF mem_id \in DOMAIN stored THEN stored[mem_id] ELSE {}

\* the stores tried on the store whose activation function ignores the call
StillStores == {ZooStores[1], ZooStores[6],
                [mem_id |-> Id("fur"), kwargs |-> <<<<"is_a", "animal">>>>]}

KBInit ==
    /\ scenario \in {"zoo", "still", "plain"}
    /\ knowledge_store = (CASE scenario = "zoo" -> NXInit
                            [] scenario = "still" -> NXInitWith("ignore")
                            [] scenario = "plain" -> NXInitWith("default"))
    /\ buffers = ClearedBuffers
    /\ retrieval_ref = 0
    /\ internal_action_count = 0
    /\ max_internal_actions = NoLimit
    /\ size = 0
    /\ index = InitIndex
    /\ fault = ""
    /\ last = Returned("init", NoArg, NoneIdx, Outcome(NXInit, FALSE, EmptyMap, 0, ""))
    /\ run = 0
    /\ trail = NoTrail
    /\ pos = 0
    /\ free = 0

KBFrame == UNCHANGED <<buffers, retrieval_ref, internal_action_count,
                       max_internal_actions, size, index, run, scenario>>

\* the store after a call, the exception it raised and what it returned
KBTake(op, arg, o) ==
    /\ knowledge_store' = o.ks
    /\ fault' = o.err
    /\ last' = Returned(op, arg, knowledge_store.result_index, o)

KBStore(arg) ==
    /\ fault = ""
    /\ Advance(Call("store", arg))
    /\ KBTake("store", arg,
              Outcome(NXStore(knowledge_store, arg.mem_id, arg.kwargs), FALSE, EmptyMap, 0,
                      IF NXStoreRaises(knowledge_store, arg.mem_id) THEN "TypeError" ELSE ""))
    /\ trail' = IF NXStoreRaises(knowledge_store, arg.mem_id) THEN trail
                ELSE [trail EXCEPT !.pure = FALSE,
                                   !.stored = Put(@, arg.mem_id[1],
                                                  StoredPairs(@, arg.mem_id[1])
                                                      \cup {arg.kwargs[i] : i \in DOMAIN arg.kwargs})]
    /\ KBFrame

KBRetrieve(mem_id) ==
    /\ fault = ""
    /\ Advance(Call("retrieve", mem_id))
    /\ KBTake("retrieve", mem_id, NXRetrieve(knowledge_store, mem_id))
    /\ trail' = [trail EXCEPT !.pure = FALSE, !.retrieved = TRUE]
    /\ KBFrame

KBQuery(attr_vals) ==
    /\ fault = ""
    /\ Advance(Call("query", attr_vals))
    /\ \E o \in NXQuery(knowledge_store, attr_vals) :
          /\ KBTake("query", attr_vals, o)
          /\ trail' = IF o.err # "" THEN trail
                      ELSE [trail EXCEPT !.pure = o.hit,
                                         !.recs = IF o.hit THEN <<o.rec>> ELSE <<>>,
                                         !.retrieved = FALSE]
    /\ KBFrame

\* prev_result, called while has_prev_result
KBPrevResult ==
    /\ fault = ""
    /\ NXHasPrevResult(knowledge_store)
    /\ Advance(Call("prev_result", NoArg))
    /\ LET o == NXPrevResult(knowledge_store)
       IN  /\ KBTake("prev_result", NoArg, o)
           /\ trail' = [trail EXCEPT !.pure = FALSE]
    /\ KBFrame

\* next_result, called while has_next_result
KBNextResult ==
    /\ fault = ""
    /\ NXHasNextResult(knowledge_store)
    /\ Advance(Call("next_result", NoArg))
    /\ LET o == NXNextResult(knowledge_store)
       IN  /\ KBTake("next_result", NoArg, o)
           /\ trail' = IF o.err # "" THEN trail ELSE [trail EXCEPT !.recs = Append(@, o.rec)]
    /\ KBFrame

KBNext ==
    \/ \E arg \in (IF scenario = "zoo" THEN FreeStores ELSE StillStores) : KBStore(arg)
    \/ \E mem_id \in FreeRetrieves : KBRetrieve(mem_id)
    \/ \E attr_vals \in FreeQueries : KBQuery(attr_vals)
    \/ KBPrevResult
    \/ KBNextResult

SpecKB == KBInit /\ [][KBNext]_vars

----------------------------------------------------------------------------
(* The graph store called directly, prev_result and next_result called
   whatever has_prev_result and has_next_result report *)

KBPrevResultAny ==
    /\ fault = ""
    /\ Advance(Call("prev_result", NoArg))
    /\ KBTake("prev_result", NoArg, NXPrevResult(knowledge_store))
    /\ trail' = [trail EXCEPT !.pure = FALSE]
    /\ KBFrame

KBNextResultAny ==
    /\ fault = ""
    /\ Advance(Call("next_result", NoArg))
    /\ KBTake("next_result", NoArg, NXNextResult(knowledge_store))
    /\ trail' = [trail EXCEPT !.pure = FALSE]
    /\ KBFrame

KBNextAny ==
    \/ \E arg \in (IF scenario = "zoo" THEN FreeStores ELSE StillStores) : KBStore(arg)
    \/ \E mem_id \in FreeRetrieves : KBRetrieve(mem_id)
    \/ \E attr_vals \in FreeQueries : KBQuery(attr_vals)
    \/ KBPrevResultAny
    \/ KBNextResultAny

SpecKBAny == KBInit /\ [][KBNextAny]_vars

----------------------------------------------------------------------------
(* The naive store called directly *)

NaiveStores == {GridKwargs(i, 2) : i \in {0, 2, 3}}

NaiveQueries == {EmptyMap, [row |-> 1], [col |-> 0], [index |-> 3], [col |-> 1, row |-> 0]}

\* the calls since the last query: the index the query left, the positions
\* in knowledge returned by the next_result calls made in a row, and the
\* call before the last one with the index it started from
NaiveTrail(start, recs, prev_op, prev_before) ==
    [start |-> start, recs |-> recs, prev_op |-> prev_op, prev_before |-> prev_before]

NaiveKBInit ==
    /\ scenario = "naive"
    /\ knowledge_store = NaiveInit
    /\ buffers = ClearedBuffers
    /\ retrieval_ref = 0
    /\ internal_action_count = 0
    /\ max_internal_actions = NoLimit
    /\ size = 2
    /\ index = InitIndex
    /\ fault = ""
    /\ last = Returned("init", NoArg, NoneIdx, Outcome(NaiveInit, FALSE, EmptyMap, 0, ""))
    /\ run = 0
    /\ trail = NaiveTrail(NoneIdx, <<>>, "init", NoneIdx)
    /\ pos = 0
    /\ free = 0

\* one more call: the store after it, the exception raised, what it returned
NaiveKBTake(op, arg, o) ==
    /\ fault = ""
    /\ free < MaxCallsNaive
    /\ free' = free + 1
    /\ knowledge_store' = o.ks
    /\ retrieval_ref' = o.ref
    /\ fault' = o.err
    /\ last' = Returned(op, arg, knowledge_store.query_index, o)
    /\ UNCHANGED <<buffers, internal_action_count, max_internal_actions, size, index,
                   run, scenario, pos>>

NaiveKBStore(kwargs) ==
    /\ Len(knowledge_store.knowledge) < MaxKnowledge
    /\ NaiveKBTake("store", kwargs,
                   Outcome(NaiveStore(knowledge_store, MapOf(kwargs)), FALSE, EmptyMap, 0, ""))
    /\ trail' = NaiveTrail(knowledge_store.query_index, <<>>, last.op, last.before)

NaiveKBQuery(attr_vals) ==
    LET o == NaiveQuery(knowledge_store, attr_vals)
    IN  /\ NaiveKBTake("query", attr_vals, o)
        /\ trail' = NaiveTrail(o.ks.query_index, <<>>, last.op, last.before)

NaiveKBPrevResult ==
    LET o == NaivePrevResult(knowledge_store)
    IN  /\ NaiveKBTake("prev_result", NoArg, o)
        /\ trail' = NaiveTrail(o.ks.query_index, <<>>, last.op, last.before)

NaiveKBNextResult ==
    LET o == NaiveNextResult(knowledge_store)
    IN  /\ NaiveKBTake("next_result", NoArg, o)
        /\ trail' = NaiveTrail(trail.start,
                               IF o.err = "" THEN Append(trail.recs, o.ref) ELSE trail.recs,
                               last.op, last.before)

NaiveKBNext ==
    \/ \E kwargs \in NaiveStores : NaiveKBStore(kwargs)
    \/ \E attr_vals \in NaiveQueries : NaiveKBQuery(attr_vals)
    \/ NaiveKBPrevResult
    \/ NaiveKBNextResult

SpecNaive == NaiveKBInit /\ [][NaiveKBNext]_vars

----------------------------------------------------------------------------
(* Properties of the controller, checked under Spec *)

CopyableBufs == {b \in BufNames : BUFFERS[b].copyable}

\* C1: every copy action that get_actions returns has src_buf # dst_buf, a
\* copyable source (perceptual, retrieval or scratch), a writable destination
\* (query or scratch), src_attr = dst_attr, and is never perceptual -> scratch.
C1_CopyActionsWellFormed ==
    \A a \in GetActions :
        a.name = "copy" =>
            /\ a.src_buf # a.dst_buf
            /\ a.src_buf \in {"perceptual", "retrieval", "scratch"}
            /\ a.dst_buf \in {"query", "scratch"}
            /\ a.src_attr = a.dst_attr
            /\ ~(a.src_buf = "perceptual" /\ a.dst_buf = "scratch")

\* get_actions offers copies out of perceptual, retrieval and scratch while
\* the perceptual buffer holds an attribute that scratch lacks
C1_Witness ==
    /\ \A src \in {"perceptual", "retrieval", "scratch"} :
          \E a \in GetActions : a.name = "copy" /\ a.src_buf = src
    /\ \E attr \in DOMAIN buffers["perceptual"] : attr \notin DOMAIN buffers["scratch"]

\* the destination already holds the source's value under attr
SameValue(src_buf, attr, dst_buf) ==
    attr \in DOMAIN buffers[dst_buf] /\ buffers[dst_buf][attr] = buffers[src_buf][attr]

\* the pair of buffers is one a copy may go between
PairAllowed(src_buf, dst_buf) ==
    /\ src_buf \in {"perceptual", "retrieval", "scratch"}
    /\ dst_buf \in {"query", "scratch"}
    /\ src_buf # dst_buf
    /\ ~(src_buf = "perceptual" /\ dst_buf = "scratch")

C3_PerceptualIsObservation ==
    last.op = "react" => buffers["perceptual"] = EnvGetObservation(index)

\* react returned from an internal action after the environment had moved
C3_Witness ==
    /\ last.op = "react"
    /\ last.action.name \in {"delete", "retrieve", "next-result"}
    /\ index # InitIndex

\* C4: with max_internal_actions = N, internal_action_count never exceeds N,
\* at most N internal actions follow one another, and when the count is N
\* get_actions returns exactly the wrapped environment's actions.
C4_InternalBudget ==
    max_internal_actions # NoLimit =>
        /\ internal_action_count <= max_internal_actions
        /\ run <= max_internal_actions
        /\ internal_action_count = max_internal_actions
              => GetActions = EnvGetActions(size, index)

\* the budget of 2 is used up while the buffers would allow a copy and a delete
C4_Witness ==
    /\ max_internal_actions = 2
    /\ internal_action_count = 2
    /\ run = 2
    /\ EnvGetActions(size, index) # {}
    /\ GenerateCopyActions # {}
    /\ GenerateDeleteActions # {}

\* C5: after reset() or start_new_episode() the query, retrieval and scratch
\* buffers are empty, the perceptual buffer equals the wrapped environment's
\* current observation, and internal_action_count is 0.
C5_EpisodeStartSynchronized ==
    last.op \in {"reset", "start_new_episode"} =>
        /\ buffers["query"] = EmptyMap
        /\ buffers["retrieval"] = EmptyMap
        /\ buffers["scratch"] = EmptyMap
        /\ buffers["perceptual"] = EnvGetObservation(index)
        /\ internal_action_count = 0

\* the records the store holds: the list of mappings of the naive store, the
\* <<attribute, value>> pairs on each identifier's outgoing edges of the graph
StoredRecords(ks) ==
    IF ks.kind = "naive" THEN ks.knowledge
    ELSE [n \in DOMAIN ks.activation |-> NXPairs(ks, n)]

\* C6: react with a legal action, reset and start_new_episode leave the
\* stored records and their contents unchanged; only add_to_ltm changes them.
C6_StoreChangesOnlyByAdd ==
    [][last'.op \in {"react", "reset", "start_new_episode"}
          => StoredRecords(knowledge_store') = StoredRecords(knowledge_store)]_vars

\* the records the naive store's cursor lists, in order
MatchedRecords ==
    [i \in 1..Len(knowledge_store.query_matches) |->
        knowledge_store.knowledge[knowledge_store.query_matches[i]]]

\* the records added for row 1 of the 5 x 5 grid: index 5, 6, 7, 8, 9
RowOneRecords == [i \in 1..5 |-> MapOf(GridKwargs(4 + i, 5))]

\* C7: in the 5 x 5 grid scenario, after the hit on index = 9, the hit on
\* index = 9, row = 1, the miss on index = 0, row = 1 and the delete of
\* query.index, the query on row = 1 matches exactly the 5 records of row 1,
\* retrieval shows index 5, next-result shows index 6 and prev-result index 5.
C7_GridScenario ==
    (scenario = "grid" /\ free = 0) =>
        /\ pos \in {32, 33, 34} => MatchedRecords = RowOneRecords
        /\ pos \in {32, 34} => buffers["retrieval"] = RowOneRecords[1]
        /\ pos = 33 => buffers["retrieval"] = RowOneRecords[2]

----------------------------------------------------------------------------
(* Properties of the graph store, checked under SpecKB *)

MatchRecord(i) == AsMap(NXPairs(knowledge_store, knowledge_store.query_results[i]))

\* C9: after a query with n >= 1 matches and next_result / prev_result calls
\* made only while has_next_result / has_prev_result holds, the index stays
\* in [0, n-1], has_prev_result is false exactly at index 0, has_next_result
\* is false exactly at index n-1, each call moves the index by exactly one,
\* and the next_result calls that follow a query return the matches in
\* ranking order, each once.
C9_CursorBounded ==
    LET n == Len(knowledge_store.query_results)
        i == knowledge_store.result_index
    IN  /\ n >= 1 =>
              /\ 0 <= i /\ i <= n - 1
              /\ ~NXHasPrevResult(knowledge_store) <=> i = 0
              /\ ~NXHasNextResult(knowledge_store) <=> i = n - 1
        /\ last.op = "next_result" => i = last.before + 1
        /\ last.op = "prev_result" => i = last.before - 1
        /\ trail.pure =>
              /\ Len(trail.recs) = i + 1
              /\ \A k \in 1..Len(trail.recs) : trail.recs[k] = MatchRecord(k)

\* a query with 3 matches was followed by 2 next_result calls
C9_Witness ==
    /\ trail.pure
    /\ Len(knowledge_store.query_results) = 3
    /\ Len(trail.recs) = 3
    /\ ~NXHasNextResult(knowledge_store)

\* C10: after retrieve(mem_id), hit or miss, has_prev_result and
\* has_next_result are both false until the next query.
C10_RetrieveResetsCursor ==
    trail.retrieved =>
        ~NXHasPrevResult(knowledge_store) /\ ~NXHasNextResult(knowledge_store)

\* the identifiers that have, for every queried attribute and value, an
\* outgoing edge labeled with the attribute to the value
EdgeMatches(ks, attr_vals) ==
    {c \in DOMAIN ks.activation :
        \A a \in DOMAIN attr_vals :
            \E i \in 1..Len(ks.edges) : ks.edges[i] = <<c, attr_vals[a], a>>}

\* C11: the cursor list established by a query of the graph store holds
\* exactly the identifiers that have, for every queried attribute and value,
\* an outgoing edge labeled with that attribute to that value, also when an
\* identifier has two attributes on one value or was stored repeatedly; the
\* query returns none exactly when there is no such identifier.
C11_QueryMatchesEdges ==
    (last.op = "query" /\ fault = "") =>
        /\ {knowledge_store.query_results[i] : i \in DOMAIN knowledge_store.query_results}
               = EdgeMatches(knowledge_store, last.arg)
        /\ last.hit <=> EdgeMatches(knowledge_store, last.arg) # {}

\* the time of the last entry of an identifier's activation history: when it
\* was created or last reinforced
LastReinforced(ks, mem_id) == ks.activation[mem_id][Len(ks.activation[mem_id])].t

PositionIn(results, mem_id) == CHOOSE i \in DOMAIN results : results[i] = mem_id

\* C12: with the appending activation function, a query of the graph store
\* that finds matches puts identifier A before identifier B in the cursor
\* list whenever, before the query, A was reinforced (re-stored, retrieved,
\* returned or navigated to) later than B was created or last reinforced.
C12_RankedByReinforcement ==
    [][(last'.op = "query" /\ fault' = "" /\ last'.hit) =>
          LET results == knowledge_store'.query_results
          IN  \A i, j \in DOMAIN results :
                  LastReinforced(knowledge_store, results[i])
                      > LastReinforced(knowledge_store, results[j])
                  => PositionIn(results, results[i]) < PositionIn(results, results[j])]_vars

\* C13: in the graph store, retrieve(id) of an identifier given to store
\* returns a record whose attribute/value pairs are exactly the union of
\* the pairs of all store calls made for id (those of the one call for an
\* identifier stored once), whatever stores of other identifiers, queries
\* or navigation came between.
C13_RetrieveReturnsStored ==
    (last.op = "retrieve" /\ fault = "" /\ last.arg \in DOMAIN trail.stored) =>
        /\ last.hit
        /\ {<<a, last.rec[a]>> : a \in DOMAIN last.rec} = trail.stored[last.arg]

C13_Witness ==
    /\ last.op = "retrieve" /\ fault = "" /\ last.arg = "whale"
    /\ "whale" \in DOMAIN trail.stored
    /\ trail.stored["whale"] = {<<"is_a", "mammal">>, <<"lives_in", "water">>, <<"name", "whale">>}
    /\ "cat" \in DOMAIN trail.stored
    /\ knowledge_store.query_results # <<>>

----------------------------------------------------------------------------
(* Properties of the naive store, checked under Spec *)

\* the react just made was a copy into, or a delete from, the query buffer
QueryTouched(action) ==
    \/ action.name = "copy" /\ action.dst_buf = "query"
    \/ action.name = "delete" /\ action.buf = "query"

\* the record under the cursor of the naive store
NaiveCurrent(ks) == ks.knowledge[ks.query_matches[ks.query_index + 1]]

\* C14: when a query of the naive store finds a match and a record was
\* selected before the call and an equal record is among the new sorted
\* matches, the cursor index becomes the position of that record and that
\* record is returned; with no prior selection, or the prior record not
\* among the new matches, the index becomes 0 and the first sorted match is
\* returned.  When the query finds no match the index and the match list are
\* cleared and none is returned.
C14_NaiveCursorStability ==
    [][(/\ last'.op = "react" /\ QueryTouched(last'.action)
        /\ knowledge_store.kind = "naive" /\ buffers'["query"] # EmptyMap) =>
          LET ks == knowledge_store
              after == knowledge_store'
              found == NaiveCandidates(ks, buffers'["query"])
              kept == /\ ks.query_index # NoneIdx
                      /\ \E p \in found : ks.knowledge[p] = NaiveCurrent(ks)
          IN  IF found = {}
              THEN /\ after.query_index = NoneIdx /\ after.query_matches = <<>>
                   /\ buffers'["retrieval"] = EmptyMap
              ELSE /\ {after.query_matches[i] : i \in DOMAIN after.query_matches} = found
                   /\ buffers'["retrieval"] = NaiveCurrent(after)
                   /\ IF kept THEN NaiveCurrent(after) = NaiveCurrent(ks)
                              ELSE after.query_index = 0]_vars

\* a query has re-centered the cursor on the selected record, off index 0
C14_Witness ==
    /\ last.op = "react" /\ QueryTouched(last.action)
    /\ knowledge_store.kind = "naive" /\ buffers["query"] # EmptyMap
    /\ knowledge_store.query_index > 0
    /\ buffers["retrieval"] = NaiveCurrent(knowledge_store)

\* C15: after a query of the naive store with n >= 1 matches, next_result
\* and prev_result keep the cursor index in 0 .. n-1 and return the match
\* under it; the matches are in sorted order and next_result calls made in a
\* row visit them in that order, wrapping, so that n of them visit every
\* match once and end on the starting record; next_result then prev_result,
\* or the reverse, ends on the index it started from.
C15_NaiveNavigationCyclic ==
    (fault = "" /\ knowledge_store.query_index # NoneIdx) =>
        LET ks == knowledge_store
            n == Len(ks.query_matches)
            navs == {"next_result", "prev_result"}
        IN  /\ n >= 1
            /\ ks.query_index \in 0..(n - 1)
            /\ last.op \in navs => last.hit /\ last.rec = NaiveCurrent(ks)
            /\ \A i, j \in 1..n :
                   i < j => ~RecLess(ks.knowledge[ks.query_matches[j]],
                                     ks.knowledge[ks.query_matches[i]])
            /\ \A k \in DOMAIN trail.recs :
                   trail.recs[k] = ks.query_matches[((trail.start + k) % n) + 1]
            /\ Len(trail.recs) = n =>
                   /\ trail.recs[n] = ks.query_matches[trail.start + 1]
                   /\ {trail.recs[k] : k \in 1..n} = {ks.query_matches[k] : k \in 1..n}
            /\ (last.op \in navs /\ trail.prev_op \in navs /\ trail.prev_op # last.op)
                   => ks.query_index = trail.prev_before

\* three next_result calls in a row have gone round three matches
C15_Witness ==
    /\ fault = "" /\ scenario = "naive"
    /\ Len(knowledge_store.query_matches) = 3
    /\ Len(trail.recs) = 3
    /\ trail.recs[3] = knowledge_store.query_matches[trail.start + 1]

----------------------------------------------------------------------------
(* Properties of the controller's react, checked under Spec *)

ControllerState == <<buffers, internal_action_count, index, knowledge_store, retrieval_ref>>

\* C16: react with an action that is not in get_actions() fails with a fatal
\* error (AssertionError) and leaves the buffers, internal_action_count, the
\* wrapped environment's state and the knowledge store as they were; so for
\* a delete of an attribute absent from its buffer and for an internal action
\* when the native action set is empty.
C16_IllegalActionRejected ==
    [][(last'.op \in {"react", "raised"} /\ last'.action \notin GetActions) =>
          /\ fault' = "AssertionError"
          /\ last'.op = "raised"
          /\ UNCHANGED ControllerState]_vars

\* a delete of an absent attribute has been rejected
C16_Witness ==
    /\ fault = "AssertionError"
    /\ last.action.name = "delete"
    /\ last.action.attr \notin DOMAIN buffers[last.action.buf]

----------------------------------------------------------------------------
(* Determinism of the graph store's ranking, checked under SpecKB *)

\* C17: two graph stores with the same activation function and the same
\* sequence of store, retrieve, query, prev_result and next_result calls
\* with explicit identifiers are in the same state before each query, so
\* they produce the same ordered match list and the same record exactly
\* when, in every reachable state, a query has one possible match list and
\* one possible returned record.
C17_RankingDeterministic ==
    fault = "" =>
        \A q \in FreeQueries :
            \A o1, o2 \in NXQuery(knowledge_store, q) :
                /\ o1.ks.query_results = o2.ks.query_results
                /\ o1.rec = o2.rec

----------------------------------------------------------------------------
(* Properties of the internal actions, checked under Spec *)

\* C18: after a legal copy into query or a legal delete from query, the
\* retrieval buffer is the record the store's query returns for the
\* resulting contents of the query buffer when that buffer is not empty and
\* the store has a match, and is empty when the query buffer is empty or the
\* store has no match; a copy into scratch or a delete from scratch issues
\* no query (the store is as before) and leaves retrieval unchanged.
C18_QueryTrigger ==
    [][(last'.op = "react" /\ last'.action.name \in {"copy", "delete"}) =>
          IF QueryTouched(last'.action)
          THEN IF buffers'["query"] = EmptyMap
               THEN buffers'["retrieval"] = EmptyMap
               ELSE \E o \in KSQuery(knowledge_store, buffers'["query"]) :
                       /\ o.err = ""
                       /\ buffers'["retrieval"] = (IF o.hit THEN o.rec ELSE EmptyMap)
                       /\ o.hit => knowledge_store' = o.ks
          ELSE /\ buffers'["retrieval"] = buffers["retrieval"]
               /\ knowledge_store' = knowledge_store]_vars

\* a copy into query has missed in a store that holds records
C18_Witness ==
    /\ last.op = "react" /\ last.action.name = "copy" /\ last.action.dst_buf = "query"
    /\ buffers["query"] # EmptyMap
    /\ buffers["retrieval"] = EmptyMap
    /\ knowledge_store.kind = "naive" /\ knowledge_store.query_index = NoneIdx
    /\ Len(knowledge_store.knowledge) > 0

\* C19: after a legal retrieve(buf, attr) the query buffer is empty, the
\* retrieval buffer is the record the store returns for the identifier that
\* was in buffers[buf][attr] when the store knows it and is empty when the
\* store does not know it, and scratch is unchanged.
C19_RetrieveAction ==
    [][(last'.op = "react" /\ last'.action.name = "retrieve") =>
          LET mem_id == buffers[last'.action.buf][last'.action.attr]
              o == KSRetrieve(knowledge_store, mem_id)
          IN  /\ buffers'["query"] = EmptyMap
              /\ o.hit <=> mem_id \in DOMAIN knowledge_store.activation
              /\ buffers'["retrieval"] = (IF o.hit THEN o.rec ELSE EmptyMap)
              /\ buffers'["scratch"] = buffers["scratch"]]_vars

\* a retrieve has put a stored record into the retrieval buffer
C19_Witness ==
    /\ last.op = "react" /\ last.action.name = "retrieve"
    /\ buffers["query"] = EmptyMap
    /\ DOMAIN buffers["retrieval"] = {"col", "index", "row"}

\* C20: for every legal action, react with a native action delegates it to
\* the wrapped environment once, returns the environment's reward and sets
\* internal_action_count to 0; react with copy, delete, retrieve, prev-result
\* or next-result leaves the wrapped environment's state unchanged, returns
\* internal_reward and increases internal_action_count by exactly 1.
C20_RewardAndCounter ==
    [][(last'.op \in {"react", "raised"} /\ last'.action \in GetActions) =>
          /\ last'.op = "react"
          /\ IF last'.action.name \in InternalNames
             THEN /\ index' = index
                  /\ last'.reward = InternalReward
                  /\ internal_action_count' = internal_action_count + 1
             ELSE LET r == EnvReact(size, index, last'.action)
                  IN  /\ index' = r.index
                      /\ last'.reward = 10 * r.reward
                      /\ internal_action_count' = 0]_vars

----------------------------------------------------------------------------
(* Out-of-bounds navigation of the graph store, checked under SpecKBAny *)

\* the call just made was prev_result while has_prev_result was false, or
\* next_result while has_next_result was false
OutOfBoundsCall ==
    \/ last'.op = "prev_result" /\ ~NXHasPrevResult(knowledge_store)
    \/ last'.op = "next_result" /\ ~NXHasNextResult(knowledge_store)

\* C21: in the graph store, prev_result called while has_prev_result is
\* false and next_result called while has_next_result is false follow one
\* policy: the call fails loudly or returns an empty record, it never
\* returns the record of a stored match, and it leaves the cursor index and
\* what has_prev_result and has_next_result report as they were.
C21_OutOfBoundsPolicy ==
    [][OutOfBoundsCall =>
          /\ fault' # "" \/ last'.rec = EmptyMap
          /\ ~(fault' = "" /\ last'.hit)
          /\ knowledge_store'.result_index = knowledge_store.result_index
          /\ NXHasPrevResult(knowledge_store') = NXHasPrevResult(knowledge_store)
          /\ NXHasNextResult(knowledge_store') = NXHasNextResult(knowledge_store)]_vars

----------------------------------------------------------------------------
(* The graph store constructed without an activation function, checked under
   SpecKB *)

\* C22: on a graph store constructed without an activation function, store
\* on an existing identifier, retrieve of a known identifier, a query with a
\* match and prev_result / next_result within bounds complete normally and
\* leave the recorded activation of every node as it was.
C22_DefaultActivationCompletes ==
    [][knowledge_store.activation_fn = "default" =>
          /\ fault' = ""
          /\ \A node \in DOMAIN knowledge_store.activation :
                 knowledge_store'.activation[node] = knowledge_store.activation[node]]_vars

----------------------------------------------------------------------------
(* Retrieve and pagination through the controller, checked under Spec *)

\* the values held in the buffers
BufferValues == UNION {{buffers[b][a] : a \in DOMAIN buffers[b]} : b \in BufNames}

\* C23: the naive store's retrieve always fails with an unsupported-operation
\* error (NotImplementedError) and its retrievable is false for every value,
\* so with the naive store no retrieve action is in get_actions in any
\* reachable state and no react with a legal action has raised that error.
C23_NaiveRetrieveNeverOffered ==
    knowledge_store.kind = "naive" =>
        /\ \A v \in BufferValues :
               /\ NaiveRetrieve(knowledge_store, v).err = "NotImplementedError"
               /\ ~KSRetrievable(knowledge_store, v)
        /\ \A a \in GetActions : a.name # "retrieve"
        /\ fault # "NotImplementedError"

\* the naive store, with values in the retrieval and scratch buffers and
\* internal actions on offer
C23_Witness ==
    /\ knowledge_store.kind = "naive" /\ fault = ""
    /\ buffers["retrieval"] # EmptyMap /\ buffers["scratch"] # EmptyMap
    /\ \E a \in GetActions : a.name = "copy"

\* the store's match list and cursor index, for either backend
CursorMatches(ks) == IF ks.kind = "naive" THEN ks.query_matches ELSE ks.query_results

CursorIndex(ks) == IF ks.kind = "naive" THEN ks.query_index ELSE ks.result_index

\* the record under the cursor, for either backend
CursorRecord(ks) ==
    IF ks.kind = "naive" THEN NaiveCurrent(ks)
    ELSE AsMap(NXPairs(ks, ks.query_results[ks.result_index + 1]))

CursorDefined(ks) ==
    /\ Len(CursorMatches(ks)) >= 1
    /\ CursorIndex(ks) \in 0..(Len(CursorMatches(ks)) - 1)

\* C24: in every state the controller reaches with either store, when
\* prev-result or next-result is in get_actions the store's cursor is an
\* index into a non-empty match list, and executing the action completes
\* without error, leaves the index within the match list and sets the
\* retrieval buffer to the record at the new index.
C24_PaginationInBounds ==
    fault = "" =>
        \A a \in {Action("prev-result"), Action("next-result")} \cap GetActions :
            /\ CursorDefined(knowledge_store)
            /\ \A e \in ProcessInternalActions(a) :
                   /\ e.err = ""
                   /\ CursorDefined(e.ks)
                   /\ e.buffers["retrieval"] = CursorRecord(e.ks)

\* next-result has been executed on the graph store and prev-result is on
\* offer
C24_Witness ==
    /\ fault = "" /\ knowledge_store.kind = "nx"
    /\ last.op = "react" /\ last.action.name = "next-result"
    /\ Action("prev-result") \in GetActions
    /\ buffers["retrieval"] = CursorRecord(knowledge_store)

\* C25: once the retrieval buffer has been emptied, because the query buffer
\* became empty or because reset / start_new_episode cleared the buffers,
\* the naive store's earlier cursor position has no influence: the next
\* query that has matches leaves the cursor at index 0 and the first match in
\* sorted order in the retrieval buffer.
C25_CursorDoesNotOutliveRetrieval ==
    [][(/\ last'.op = "react" /\ QueryTouched(last'.action)
        /\ knowledge_store.kind = "naive"
        /\ buffers["retrieval"] = EmptyMap
        /\ buffers'["retrieval"] # EmptyMap) =>
          /\ knowledge_store'.query_index = 0
          /\ buffers'["retrieval"]
                 = knowledge_store'.knowledge[knowledge_store'.query_matches[1]]]_vars

----------------------------------------------------------------------------
(* SparqlKB *)

\* a Python value: a str, held as the sequence of its pieces, or not a str
Str(text) == [str |-> TRUE, text |-> text]
NoneVal == [str |-> FALSE, text |-> <<>>]
NumVal == [str |-> FALSE, text |-> <<"9">>]

\* '<http://dbpedia.org/resource/n>' and the literal '"n"'
Iri(n) == Str(<<"<http", n, ">">>)
Lit(n) == Str(<<"\"", n, "\"">>)

\* str.startswith('<http') and str.endswith('>')
StartsWithHttp(v) == Len(v.text) >= 1 /\ v.text[1] = "<http"
EndsWithBracket(v) == Len(v.text) >= 1 /\ v.text[Len(v.text)] = ">"

BAD_VALUES == {Str(<<"\"", "NAN", "\"", "^^<double>">>), Str(<<"\"", "NAN", "\"", "^^<float>">>)}

FoafName == Iri("name")

\* the triples self.source answers from: three albums named a, b and c, a
\* fourth without a name, and a single whose identifier is not an http one
Source ==
    {<<Iri("A"), Iri("type"), Iri("Album")>>, <<Iri("A"), Iri("date"), Lit("1979")>>,
     <<Iri("A"), FoafName, Lit("a")>>,
     <<Iri("A"), Iri("genre"), Lit("prog")>>, <<Iri("A"), Iri("genre"), Lit("rock")>>,
     <<Iri("A"), Iri("length"), Str(<<"\"", "NAN", "\"", "^^<double>">>)>>,
     <<Iri("B"), Iri("type"), Iri("Album")>>, <<Iri("B"), Iri("date"), Lit("1979")>>,
     <<Iri("B"), FoafName, Lit("b")>>,
     <<Iri("C"), Iri("type"), Iri("Album")>>, <<Iri("C"), Iri("date"), Lit("1980")>>,
     <<Iri("C"), FoafName, Lit("c")>>,
     <<Iri("D"), Iri("type"), Iri("Album")>>,
     <<Str(<<"<urn:", "E", ">">>), Iri("type"), Iri("Single")>>, <<Str(<<"<urn:", "E", ">">>), FoafName, Lit("e")>>}

\* the strings that get compared, in the order of Python's str comparison
Collation ==
    <<Lit("1979"), Lit("1980"), Lit("a"), Lit("b"), Lit("c"), Lit("e"), Lit("prog"), Lit("rock")>>

StrLess(v, w) ==
    (CHOOSE i \in DOMAIN Collation : Collation[i] = v)
        < (CHOOSE i \in DOMAIN Collation : Collation[i] = w)

\* max(vals)
MaxOf(vals) == CHOOSE v \in vals : \A w \in vals : w = v \/ StrLess(w, v)

SparqlInit ==
    [kind |-> "sparql", prev_query |-> <<>>, query_offset |-> 0,
     retrieve_cache |-> EmptyMap, query_cache |-> EmptyMap]

\* what a call on the store returns: the store after it, the record returned
\* (retrieve, query), the identifier returned or found (query, prev_result,
\* next_result; NoneVal for None) and the exception raised, if any
SparqlOutcome(ks, rec, mem, err) == [ks |-> ks, rec |-> rec, mem |-> mem, err |-> err]

\* _true_retrieve: the largest value of each attribute, bad values left out
TrueRetrieve(mem_id) ==
    LET pairs == {<<t[2], t[3]>> : t \in {u \in Source : u[1] = mem_id /\ u[3] \notin BAD_VALUES}}
    IN  [attr \in {p[1] : p \in pairs} |-> MaxOf({p[2] : p \in {q \in pairs : q[1] = attr}})]

\* _true_query: the concept at the offset among the named concepts that have
\* every attribute value, ordered by name; None past the end
TrueQuery(attr_vals, offset) ==
    LET rows == {<<t[1], t[3]>> : t \in {u \in Source :
                    /\ u[2] = FoafName
                    /\ \A attr \in DOMAIN attr_vals : <<u[1], attr, attr_vals[attr]>> \in Source}}
        before(r) == Cardinality({q \in rows : StrLess(q[2], r[2])})
    IN  IF \E r \in rows : before(r) = offset
        THEN (CHOOSE r \in rows : before(r) = offset)[1]
        ELSE NoneVal

\* retrieve, of a store made without augments
SparqlRetrieve(ks, mem_id) ==
    IF ~(mem_id.str /\ StartsWithHttp(mem_id) /\ EndsWithBracket(mem_id))
    THEN SparqlOutcome(ks, EmptyMap, NoneVal, "ValueError")
    ELSE LET cache == IF mem_id \in DOMAIN ks.retrieve_cache THEN ks.retrieve_cache
                      ELSE ks.retrieve_cache @@ (mem_id :> TrueRetrieve(mem_id))
         IN  SparqlOutcome([ks EXCEPT !.retrieve_cache = cache, !.prev_query = <<>>,
                                      !.query_offset = 0],
                           cache[mem_id], NoneVal, "")

\* query; the cache key, the sorted tuple of the items, is the mapping itself
SparqlQuery(ks, attr_vals) ==
    LET cache == IF attr_vals \in DOMAIN ks.query_cache THEN ks.query_cache
                 ELSE ks.query_cache @@ (attr_vals :> TrueQuery(attr_vals, 0))
        mem_id == cache[attr_vals]
        ks1 == [ks EXCEPT !.query_cache = cache, !.query_offset = 0]
    IN  IF mem_id = NoneVal
        THEN SparqlOutcome([ks1 EXCEPT !.prev_query = <<>>], EmptyMap, NoneVal, "")
        ELSE LET o == SparqlRetrieve([ks1 EXCEPT !.prev_query = <<attr_vals>>], mem_id)
             IN  SparqlOutcome(o.ks, o.rec, mem_id, o.err)

SparqlHasPrevResult(ks) == ks.prev_query # <<>> /\ ks.query_offset > 0

SparqlHasNextResult(ks) == ks.prev_query # <<>>

SparqlPrevResult(ks) ==
    IF ~SparqlHasPrevResult(ks) THEN SparqlOutcome(ks, EmptyMap, NoneVal, "")
    ELSE SparqlOutcome([ks EXCEPT !.query_offset = @ - 1], EmptyMap,
                       TrueQuery(ks.prev_query[1], ks.query_offset - 1), "")

SparqlNextResult(ks) ==
    IF ~SparqlHasNextResult(ks) THEN SparqlOutcome(ks, EmptyMap, NoneVal, "")
    ELSE SparqlOutcome([ks EXCEPT !.query_offset = @ + 1], EmptyMap,
                       TrueQuery(ks.prev_query[1], ks.query_offset + 1), "")

SparqlRetrievable(mem_id) == mem_id.str /\ StartsWithHttp(mem_id)

----------------------------------------------------------------------------
(* The remote-backed store called directly *)

\* '<http://dbpedia.org/resource/A>' and others: an identifier without
\* triples, one cut before its '>', a literal, a non-http one and a number
SparqlRetrieves ==
    {Iri("A"), Iri("B"), Iri("Z"), Str(<<"<http", "A">>), Lit("a"), Str(<<"<urn:", "E", ">">>), NumVal}

SparqlQueries ==
    {(Iri("type") :> Iri("Album")),
     (Iri("type") :> Iri("Album")) @@ (Iri("date") :> Lit("1979")),
     (Iri("date") :> Lit("1981")),
     (Iri("type") :> Iri("Single"))}

SparqlReturned(op, arg, before, o) ==
    [op |-> op, arg |-> arg, before |-> before, rec |-> o.rec, mem |-> o.mem]

SparqlKBInit ==
    /\ scenario = "sparql"
    /\ knowledge_store = SparqlInit
    /\ buffers = ClearedBuffers
    /\ retrieval_ref = 0
    /\ internal_action_count = 0
    /\ max_internal_actions = NoLimit
    /\ size = 2
    /\ index = InitIndex
    /\ fault = ""
    /\ last = SparqlReturned("init", NoneVal, 0, SparqlOutcome(SparqlInit, EmptyMap, NoneVal, ""))
    /\ run = 0
    /\ trail = NoTrail
    /\ pos = 0
    /\ free = 0

\* one more call, by a caller that catches what the call before it raised:
\* the store after it, the exception it raised, what it returned
SparqlKBTake(op, arg, o) ==
    /\ free < MaxCallsSparql
    /\ free' = free + 1
    /\ knowledge_store' = o.ks
    /\ fault' = o.err
    /\ last' = SparqlReturned(op, arg, knowledge_store.query_offset, o)
    /\ UNCHANGED <<buffers, retrieval_ref, internal_action_count, max_internal_actions,
                   size, index, run, trail, scenario, pos>>

\* clear and store raise NotImplementedError
SparqlKBUnsupported(op) ==
    SparqlKBTake(op, NoneVal, SparqlOutcome(knowledge_store, EmptyMap, NoneVal, "NotImplementedError"))

SparqlKBRetrieve(mem_id) == SparqlKBTake("retrieve", mem_id, SparqlRetrieve(knowledge_store, mem_id))

SparqlKBQuery(attr_vals) == SparqlKBTake("query", attr_vals, SparqlQuery(knowledge_store, attr_vals))

SparqlKBPrevResult == SparqlKBTake("prev_result", NoneVal, SparqlPrevResult(knowledge_store))

SparqlKBNextResult == SparqlKBTake("next_result", NoneVal, SparqlNextResult(knowledge_store))

SparqlKBNext ==
    \/ \E op \in {"clear", "store"} : SparqlKBUnsupported(op)
    \/ \E mem_id \in SparqlRetrieves : SparqlKBRetrieve(mem_id)
    \/ \E attr_vals \in SparqlQueries : SparqlKBQuery(attr_vals)
    \/ SparqlKBPrevResult
    \/ SparqlKBNextResult

SpecSparql == SparqlKBInit /\ [][SparqlKBNext]_vars

\* C26: in the remote-backed store every value that retrievable accepts is
\* usable as a mem_id: retrieve of it does not raise the ValueError of the
\* identifier-format validation.
C26_RetrievableIsValidMemId ==
    (last.op = "retrieve" /\ SparqlRetrievable(last.arg)) => fault # "ValueError"

\* C27: in the remote-backed store, after a query that found a match,
\* has_next_result is true, has_prev_result is true exactly when the offset is
\* greater than 0, and next_result re-issues the query's attributes at the
\* offset plus one (prev_result, when there is one, at the offset minus one).
C27_PaginationAfterMatch ==
    (last.op = "query" /\ last.mem # NoneVal /\ fault = "") =>
        /\ SparqlHasNextResult(knowledge_store)
        /\ SparqlHasPrevResult(knowledge_store) <=> knowledge_store.query_offset > 0
        /\ SparqlNextResult(knowledge_store).ks.query_offset = knowledge_store.query_offset + 1
        /\ SparqlNextResult(knowledge_store).mem
               = TrueQuery(last.arg, knowledge_store.query_offset + 1)
        /\ SparqlHasPrevResult(knowledge_store) =>
               SparqlPrevResult(knowledge_store).mem
                   = TrueQuery(last.arg, knowledge_store.query_offset - 1)

====
